---------------------------- MODULE Spec2Model ----------------------------
(***************************************************************************)
(* A model of oracledb_mcp_server.py: the statement validator, the bounded *)
(* fetch loop of execute_query, the normalisation of cells, the            *)
(* serialiser format_results, and the connection lifecycle of the three    *)
(* tools execute_oracle, describe_table and list_tables.                   *)
(*                                                                         *)
(* Text is a sequence of one-character strings.  A character outside       *)
(* ASCII is written "~" (one "~" per character, so lengths are kept).      *)
(***************************************************************************)
EXTENDS Integers, Sequences, FiniteSets, TLC

VARIABLES
    pc,                 \* the position of the call
    op,                 \* the tool called
    query,              \* [toks, pad]: the SQL text as lexical tokens, and padding blanks
    params,             \* the bind parameters: a sequence of [key, value]; None or {} is <<>>
    max_rows,           \* an integer >= 0, or NoLimit
    max_length,
    table_name,         \* describe_table's argument
    env_ok,             \* DB_USER, DB_PASSWORD and DB_DSN are all set
    source,             \* the rows the statement yields, in order
    driver,             \* "exact": fetchmany returns min(arraysize, remaining) rows;
                        \* "short": it may return fewer
    conn,               \* "none", "open", "closed"
    cursor,             \* "none", "open", "closed"
    validated,          \* "none", or what validate_query answered
    dispatched,         \* the calls cursor.execute received, in order
    srcPos,             \* rows consumed from the source
    arraysize,
    results,
    more_rows_exist,
    nFetchmany,         \* fetchmany calls made
    nFetchone,          \* fetchone calls made
    processed_results,
    exc,                \* NoExc, or the exception in flight
    ret,                \* None, or the value being returned
    raisedAt,           \* "none", or the step whose failure was raised first
    response,           \* NoResponse, or the payload handed to the caller
    escaped             \* an exception left the tool function

vars == <<pc, op, query, params, max_rows, max_length, table_name, env_ok, source,
          driver, conn, cursor, validated, dispatched, srcPos, arraysize, results,
          more_rows_exist, nFetchmany, nFetchone, processed_results, exc, ret,
          raisedAt, response, escaped>>

\* Python's None, for a value that is otherwise a sequence (text, a dict, a list)
None == <<>>

\* max_rows=None (lines 164, 549), among the integers
NoLimit == -1

Min(a, b) == IF a < b THEN a ELSE b

(***************************************************************************)
(* Text helpers.                                                           *)
(***************************************************************************)
UpperLetters ==
    <<"A","B","C","D","E","F","G","H","I","J","K","L","M",
      "N","O","P","Q","R","S","T","U","V","W","X","Y","Z">>

LowerLetters ==
    <<"a","b","c","d","e","f","g","h","i","j","k","l","m",
      "n","o","p","q","r","s","t","u","v","w","x","y","z">>

DigitChars == <<"0","1","2","3","4","5","6","7","8","9">>

Range(s) == {s[i] : i \in DOMAIN s}

\* str.lower() and str.upper() on one character
LowerChar(c) ==
    IF c \in Range(UpperLetters)
    THEN LowerLetters[CHOOSE i \in DOMAIN UpperLetters : UpperLetters[i] = c]
    ELSE c

UpperChar(c) ==
    IF c \in Range(LowerLetters)
    THEN UpperLetters[CHOOSE i \in DOMAIN LowerLetters : LowerLetters[i] = c]
    ELSE c

Lower(s) == [i \in DOMAIN s |-> LowerChar(s[i])]

Upper(s) == [i \in DOMAIN s |-> UpperChar(s[i])]

\* Python's  sub in s
Contains(s, sub) ==
    \E i \in 1..(Len(s) - Len(sub) + 1) : SubSeq(s, i, i + Len(sub) - 1) = sub

\* Python's  s[:n]  for n >= 0
Take(s, n) == SubSeq(s, 1, Min(n, Len(s)))

\* Python's  s.rfind(c), 1-based; 0 when c does not occur (Python's -1)
RFind(s, c) ==
    IF \E i \in DOMAIN s : s[i] = c
    THEN CHOOSE i \in DOMAIN s : s[i] = c /\ \A j \in DOMAIN s : s[j] = c => j <= i
    ELSE 0

RECURSIVE Flatten(_)
Flatten(ss) == IF ss = <<>> THEN <<>> ELSE Head(ss) \o Flatten(Tail(ss))

\* sep.join(ss)
RECURSIVE Join(_, _)
Join(sep, ss) ==
    IF ss = <<>> THEN <<>>
    ELSE IF Len(ss) = 1 THEN Head(ss)
    ELSE Head(ss) \o sep \o Join(sep, Tail(ss))

\* str(n) for an integer n >= 0
RECURSIVE Str(_)
Str(n) == IF n < 10 THEN <<DigitChars[n + 1]>> ELSE Str(n \div 10) \o <<DigitChars[(n % 10) + 1]>>

(***************************************************************************)
(* SQL text.  A query is a sequence of lexical tokens, written with one    *)
(* blank between tokens, followed by  pad  blanks.                         *)
(***************************************************************************)
Tok(type, value) == [type |-> type, value |-> value]

T_SELECT == Tok("word", <<"S","E","L","E","C","T">>)
T_t == Tok("word", <<"t">>)
T_Update == Tok("word", <<"U","p","d","a","t","e">>)
T_updated == Tok("word", <<"u","p","d","a","t","e","d">>)
T_UNION == Tok("word", <<"U","N","I","O","N">>)
T_ALL == Tok("word", <<"A","L","L">>)
T_INTO == Tok("word", <<"I","N","T","O">>)
T_DROP == Tok("word", <<"D","R","O","P">>)
T_TABLE == Tok("word", <<"T","A","B","L","E">>)
T_semi == Tok("punct", <<";">>)
T_comment == Tok("comment", <<"/","*","d","r","o","p","*","/">>)
T_string == Tok("string", <<"'","d","r","o","p","'">>)

\* len(query)
QueryLen(q) ==
    Len(Join(<<" ">>, [i \in DOMAIN q.toks |-> q.toks[i].value])) + q.pad

MAX_QUERY_LENGTH == 1000000

DANGEROUS_KEYWORDS ==
    { <<"d","r","o","p">>, <<"d","e","l","e","t","e">>, <<"u","p","d","a","t","e">>,
      <<"i","n","s","e","r","t">>, <<"m","e","r","g","e">>,
      <<"t","r","u","n","c","a","t","e">>, <<"a","l","t","e","r">>,
      <<"c","r","e","a","t","e">>, <<"g","r","a","n","t">>, <<"r","e","v","o","k","e">>,
      <<"e","x","e","c","u","t","e">>, <<"c","o","m","m","i","t">>,
      <<"r","o","l","l","b","a","c","k">>, <<"s","a","v","e","p","o","i","n","t">> }

\* validate_query_length: "ok", or the error it raises
validate_query_length(q) ==
    IF QueryLen(q) > MAX_QUERY_LENGTH THEN "too_long" ELSE "ok"

(***************************************************************************)
(* sqlparse, as validate_query uses it.                                    *)
(***************************************************************************)
\* sqlparse.parse: the statements of the text; a statement ends with its ";"
RECURSIVE SplitFrom(_, _)
SplitFrom(toks, cur) ==
    IF toks = <<>> THEN (IF cur = <<>> THEN <<>> ELSE <<cur>>)
    ELSE IF Head(toks) = T_semi
         THEN <<Append(cur, Head(toks))>> \o SplitFrom(Tail(toks), <<>>)
         ELSE SplitFrom(Tail(toks), Append(cur, Head(toks)))

sqlparse_parse(toks) == SplitFrom(toks, <<>>)

\* the keywords sqlparse classes as DML or DDL, among the words of the model
DmlDdlWords ==
    { <<"S","E","L","E","C","T">>, <<"U","P","D","A","T","E">>, <<"D","R","O","P">>,
      <<"D","E","L","E","T","E">>, <<"I","N","S","E","R","T">>, <<"M","E","R","G","E">>,
      <<"C","R","E","A","T","E">>, <<"A","L","T","E","R">> }

\* Statement.get_type(): the first token that is no comment, when it is a DML or
\* DDL keyword, in upper case; "UNKNOWN" otherwise
RECURSIVE get_type(_)
get_type(stmt) ==
    IF stmt = <<>> THEN <<"U","N","K","N","O","W","N">>
    ELSE IF Head(stmt).type = "comment" THEN get_type(Tail(stmt))
    ELSE IF Head(stmt).type = "word" /\ Upper(Head(stmt).value) \in DmlDdlWords
         THEN Upper(Head(stmt).value)
         ELSE <<"U","N","K","N","O","W","N">>

\* line 109 without its test for UNION
TokenForbiddenIntoOnly(token) ==
    Contains(Lower(token.value), <<"i","n","t","o">>)

\* the test made on one token of stmt.tokens (line 109)
TokenForbidden(token) ==
    LET token_value == Lower(token.value)
    IN  Contains(token_value, <<"u","n","i","o","n">>)
        \/ Contains(token_value, <<"i","n","t","o">>)

\* validate_query: "ok", or the error it raises
validate_query(toks) ==
    LET parsed == sqlparse_parse(toks)
    IN  IF parsed = <<>> THEN "invalid"
        ELSE IF Len(parsed) > 1 THEN "multiple_statements"
        ELSE IF get_type(parsed[1]) # <<"S","E","L","E","C","T">> THEN "not_select"
        ELSE IF \E i \in DOMAIN parsed[1] : TokenForbidden(parsed[1][i])
             THEN "forbidden_operation"
        ELSE "ok"


(***************************************************************************)
(* Bind parameters.  A value is [type, len]: its Python type and, for a    *)
(* str, its length.                                                        *)
(***************************************************************************)
Param(key, type, len) == [key |-> key, value |-> [type |-> type, len |-> len]]

IdentStart(c) == c \in Range(UpperLetters) \cup Range(LowerLetters) \cup {"_"}

IdentChar(c) == IdentStart(c) \/ c \in Range(DigitChars)

\* re.match(r'^[a-zA-Z_][a-zA-Z0-9_]*$', s): "$" also matches before a final newline
MatchIdent(s) ==
    LET core == IF Len(s) > 1 /\ s[Len(s)] = "\n" THEN SubSeq(s, 1, Len(s) - 1) ELSE s
    IN  /\ Len(core) >= 1
        /\ IdentStart(core[1])
        /\ \A i \in 2..Len(core) : IdentChar(core[i])

MaxParamStrLen == 4000

\* the checks made on one item (lines 53-62): "ok", or the error raised
ParamError(p) ==
    IF ~MatchIdent(p.key) THEN "bad_name"
    ELSE IF p.value.type \notin {"str", "int", "float", "bool", "NoneType"} THEN "bad_type"
    ELSE IF p.value.type = "str" /\ p.value.len > MaxParamStrLen THEN "too_long"
    ELSE "ok"

\* sanitize_input: "ok", or the error of the first item that fails
sanitize_input(ps) ==
    IF ps = None THEN "ok"
    ELSE IF \E i \in DOMAIN ps : ParamError(ps[i]) # "ok"
         THEN LET first == CHOOSE i \in DOMAIN ps :
                               /\ ParamError(ps[i]) # "ok"
                               /\ \A j \in 1..(i - 1) : ParamError(ps[j]) = "ok"
              IN  ParamError(ps[first])
    ELSE "ok"

(***************************************************************************)
(* Normalisation of the fetched rows (execute, lines 258-279).  A raw cell *)
(* is [kind, val]: "null"; "int" and its value; "str" and its text; "blob" *)
(* and its size; "clob" and its text; "bfile"; "nclob" (a LOB of another   *)
(* type); "bad" (a value whose conversion raises, val its message).        *)
(***************************************************************************)
Cell(kind, val) == [kind |-> kind, val |-> val]

DisplayError(msg) == <<"<","~","~","~","~","~",":"," ">> \o msg \o <<">">>

\* what one raw value appends to processed_row: no cell or one cell
NormalizeCell(value) ==
    CASE value.kind = "blob" ->
            << <<"<","B","L","O","B","~","~","~",":"," ">> \o Str(value.val)
               \o <<" ","b","y","t","e","s",">">> >>
      [] value.kind = "clob" -> <<value.val>>
      [] value.kind = "bfile" -> << <<"<","B","F","I","L","E","~","~","~","~","~",">">> >>
      [] value.kind = "nclob" -> <<>>
      [] value.kind = "null" -> << <<>> >>
      [] value.kind = "int" -> <<Str(value.val)>>
      [] value.kind = "str" -> <<value.val>>
      [] value.kind = "bad" -> <<DisplayError(value.val)>>

NormalizeRow(row) == Flatten([i \in DOMAIN row |-> NormalizeCell(row[i])])

NormalizeRows(rows) == [i \in DOMAIN rows |-> NormalizeRow(rows[i])]

(***************************************************************************)
(* json.dumps(json_results, ensure_ascii=False, indent=2) of a list of     *)
(* dicts with text values.  A dict is a sequence of [k, v].                *)
(***************************************************************************)
JsonEscape(c) ==
    CASE c = "\"" -> <<"\\", "\"">>
      [] c = "\\" -> <<"\\", "\\">>
      [] c = "\n" -> <<"\\", "n">>
      [] OTHER -> <<c>>

JsonString(s) == <<"\"">> \o Flatten([i \in DOMAIN s |-> JsonEscape(s[i])]) \o <<"\"">>

DumpMember(m) == <<" "," "," "," ">> \o JsonString(m.k) \o <<":"," ">> \o JsonString(m.v)

DumpRecord(rec) ==
    IF rec = <<>> THEN <<"{","}">>
    ELSE <<"{","\n">> \o Join(<<",","\n">>, [i \in DOMAIN rec |-> DumpMember(rec[i])])
         \o <<"\n"," "," ","}">>

Dumps(recs) ==
    IF recs = <<>> THEN <<"[","]">>
    ELSE <<"[","\n">>
         \o Join(<<",","\n">>, [i \in DOMAIN recs |-> <<" "," ">> \o DumpRecord(recs[i])])
         \o <<"\n","]">>

(***************************************************************************)
(* format_results (lines 112-162).                                         *)
(***************************************************************************)
NoResultsText == <<"~","~","~","~","~","~","~","~","~","~">>

RowLimitMessage ==
    <<"(","~","~","~","~","~","~","~","~","~","~","~","~","~","m","a","x","_","r","o","w",
      "s","~","~","~","~","~","~","~","~","~","~","~","~","~","~","~","~",")">>

ByteLimitMessage ==
    <<"(","~","~","~","~","~","~","~","~","~","~","~","~","~","~","m","a","x","_","l","e",
      "n","g","t","h","~","~","~","~","~","~","~","~","~","~","~","~","~","~","~","~",")">>

MessageKey == <<"m","e","s","s","a","g","e">>

\* the text appended at line 159
ByteLimitNotice ==
    <<",","\n"," "," ","{","\n"," "," "," "," ">> \o JsonString(MessageKey) \o <<":"," ">>
    \o JsonString(ByteLimitMessage) \o <<"\n"," "," ","}","\n","]">>

\* cursor.description: the names of the statement's columns
ColumnNames == << <<"A">>, <<"B">>, <<"C">> >>

Description(ncols) == SubSeq(ColumnNames, 1, ncols)

\* record = {header: value for header, value in zip(headers, row)}
ZipRecord(headers, row) ==
    [i \in 1..Min(Len(headers), Len(row)) |-> [k |-> headers[i], v |-> row[i]]]

JsonResults(headers, rows, more) ==
    [i \in DOMAIN rows |-> ZipRecord(headers, rows[i])]
    \o (IF more THEN << <<[k |-> MessageKey, v |-> RowLimitMessage]>> >> ELSE <<>>)

\* lines 151-160: the text cut at max_length, then at its last "}", then the notice
TruncateText(result_str, maxlen) ==
    LET truncated_str == Take(result_str, maxlen)
        last_bracket == RFind(truncated_str, "}")
        kept == IF last_bracket # 0 THEN SubSeq(truncated_str, 1, last_bracket)
                ELSE truncated_str
    IN  kept \o ByteLimitNotice

format_results(headers, rows, maxlen, more) ==
    IF rows = <<>> THEN NoResultsText
    ELSE LET result_str == Dumps(JsonResults(headers, rows, more))
         IN  IF Len(result_str) > maxlen THEN TruncateText(result_str, maxlen)
             ELSE result_str


(***************************************************************************)
(* Exceptions.  An exception in flight is [cls, at]: its class and the     *)
(* step that raised it.  Every class of the model derives from Exception.  *)
(***************************************************************************)
ExceptionClasses == {"ValueError", "DatabaseError", "Exception"}

Exc(cls, at) == [cls |-> cls, at |-> at]

NoExc == Exc("none", "none")

NoResponse == [kind |-> "none", text |-> <<>>, rows |-> <<>>]

\* a handler that catches ValueError alone
BoundaryCatchesValueError(cls) == cls = "ValueError"

\* "except Exception" of the tool functions (lines 314, 591, 679)
BoundaryCatches(cls) == cls \in ExceptionClasses

\* the handler an exception raised outside the inner try reaches first
OuterHandler == IF op = "execute_oracle" THEN "execute_except" ELSE "boundary_except"

FirstRaise(at) == IF raisedAt = "none" THEN at ELSE raisedAt

BatchCap == 100

\* the number of columns of the statement's result
NCols == IF source = <<>> THEN 0 ELSE Len(source[1])

\* the fixed catalogue query of describe_table and list_tables
MetaQuery == [toks |-> <<T_SELECT, T_t>>, pad |-> 0]

callInputs == <<op, query, params, max_rows, max_length, table_name>>
world == <<env_ok, source, driver>>
resources == <<conn, cursor>>
fetchState == <<srcPos, arraysize, results, more_rows_exist, nFetchmany, nFetchone>>
outcome == <<response, escaped>>

(***************************************************************************)
(* The tool calls.                                                         *)
(***************************************************************************)
\* execute_oracle(query, params, max_length, max_rows), line 310
CallExecuteOracle(q, p, ml, mr) ==
    /\ pc = "idle"
    /\ op' = "execute_oracle"
    /\ query' = q
    /\ params' = p
    /\ max_length' = ml
    /\ max_rows' = mr
    /\ pc' = "get_db_connection"
    /\ UNCHANGED <<table_name, world, resources, validated, dispatched, fetchState,
                   processed_results, exc, ret, raisedAt, outcome>>

\* describe_table(table_name), lines 513-520: the name is checked before connecting
CallDescribeTable(tn) ==
    /\ pc = "idle"
    /\ op' = "describe_table"
    /\ table_name' = tn
    /\ query' = MetaQuery
    /\ params' = <<[key |-> <<"1">>, value |-> [type |-> "str", len |-> Len(tn)]]>>
    /\ max_rows' = NoLimit
    /\ IF MatchIdent(tn)
       THEN /\ pc' = "get_db_connection"
            /\ UNCHANGED <<exc, raisedAt>>
       ELSE /\ exc' = Exc("ValueError", "table_name")
            /\ raisedAt' = FirstRaise("table_name")
            /\ pc' = "boundary_except"
    /\ UNCHANGED <<max_length, world, resources, validated, dispatched, fetchState,
                   processed_results, ret, outcome>>

\* list_tables(max_rows, name_pattern, ...), lines 607-610
CallListTables(mr, pattern) ==
    /\ pc = "idle"
    /\ op' = "list_tables"
    /\ query' = MetaQuery
    /\ params' = IF pattern
                 THEN <<[key |-> <<"1">>, value |-> [type |-> "str", len |-> 1]]>>
                 ELSE None
    /\ max_rows' = mr
    /\ pc' = "get_db_connection"
    /\ UNCHANGED <<max_length, table_name, world, resources, validated, dispatched,
                   fetchState, processed_results, exc, ret, raisedAt, outcome>>

\* get_db_connection, lines 207-239, called outside the inner try
GetDbConnection ==
    /\ pc = "get_db_connection"
    /\ \/ /\ ~env_ok                              \* line 228
          /\ exc' = Exc("ValueError", "config")
          /\ raisedAt' = FirstRaise("config")
          /\ pc' = OuterHandler
          /\ UNCHANGED resources
       \/ /\ env_ok                               \* line 236 raises
          /\ exc' = Exc("DatabaseError", "connect")
          /\ raisedAt' = FirstRaise("connect")
          /\ pc' = OuterHandler
          /\ UNCHANGED resources
       \/ /\ env_ok                               \* line 237 raises
          /\ conn' = "open"
          /\ exc' = Exc("DatabaseError", "cursor")
          /\ raisedAt' = FirstRaise("cursor")
          /\ pc' = OuterHandler
          /\ UNCHANGED cursor
       \/ /\ env_ok
          /\ conn' = "open"
          /\ cursor' = "open"
          /\ pc' = "execute_query"
          /\ UNCHANGED <<exc, raisedAt>>
    /\ UNCHANGED <<callInputs, world, validated, dispatched, fetchState,
                   processed_results, ret, outcome>>

(***************************************************************************)
(* execute_query, lines 164-205.                                           *)
(***************************************************************************)
\* line 171
ExecuteQueryValidate ==
    /\ pc = "execute_query"
    /\ validated' = validate_query(query.toks)
    /\ IF validated' = "ok"
       THEN /\ pc' = "cursor_execute"
            /\ UNCHANGED <<exc, raisedAt>>
       ELSE /\ exc' = Exc("ValueError", "validate")
            /\ raisedAt' = FirstRaise("validate")
            /\ pc' = "finally"
    /\ UNCHANGED <<callInputs, world, resources, dispatched, fetchState,
                   processed_results, ret, outcome>>

\* lines 174-177; a driver error is wrapped at line 205
CursorExecute ==
    /\ pc = "cursor_execute"
    /\ dispatched' = Append(dispatched, [query |-> query, params |-> params])
    /\ \/ /\ pc' = "fetch_init"
          /\ UNCHANGED <<exc, raisedAt>>
       \/ /\ exc' = Exc("ValueError", "execute")
          /\ raisedAt' = FirstRaise("execute")
          /\ pc' = "finally"
    /\ UNCHANGED <<callInputs, world, resources, validated, fetchState,
                   processed_results, ret, outcome>>

\* lines 200-202: no row limit
FetchAll ==
    /\ pc = "fetch_init"
    /\ max_rows = NoLimit
    /\ \/ /\ results' = SubSeq(source, srcPos + 1, Len(source))
          /\ srcPos' = Len(source)
          /\ more_rows_exist' = FALSE
          /\ pc' = "fetched"
          /\ UNCHANGED <<exc, raisedAt>>
       \/ /\ exc' = Exc("ValueError", "fetch")
          /\ raisedAt' = FirstRaise("fetch")
          /\ pc' = "finally"
          /\ UNCHANGED <<results, srcPos, more_rows_exist>>
    /\ UNCHANGED <<callInputs, world, resources, validated, dispatched, arraysize,
                   nFetchmany, nFetchone, processed_results, ret, outcome>>

\* lines 180-183; the driver may refuse an arraysize below 1
FetchInit ==
    /\ pc = "fetch_init"
    /\ max_rows # NoLimit
    /\ \/ /\ arraysize' = Min(max_rows, BatchCap)
          /\ results' = <<>>
          /\ more_rows_exist' = FALSE
          /\ pc' = "loop"
          /\ UNCHANGED <<exc, raisedAt>>
       \/ /\ Min(max_rows, BatchCap) < 1
          /\ exc' = Exc("ValueError", "arraysize")
          /\ raisedAt' = FirstRaise("arraysize")
          /\ pc' = "finally"
          /\ UNCHANGED <<arraysize, results, more_rows_exist>>
    /\ UNCHANGED <<callInputs, world, resources, validated, dispatched, srcPos,
                   nFetchmany, nFetchone, processed_results, ret, outcome>>

\* line 192 without its slice
KeepAll(rows, n) == rows

\* results[:max_rows], line 192
TruncatePage(rows, n) == SubSeq(rows, 1, Min(n, Len(rows)))

\* the sizes of the batch cursor.fetchmany() may return: what is left, up to
\* arraysize rows; a "short" driver may also return a single row
BatchSizes ==
    LET full == Min(arraysize, Len(source) - srcPos)
    IN  IF driver = "exact" \/ full = 0 THEN {full} ELSE {1, full}

\* lines 185-196, one iteration of the loop, up to its probe
FetchMany ==
    /\ pc = "loop"
    /\ Len(results) < max_rows
    /\ \E k \in BatchSizes :
          LET batch == SubSeq(source, srcPos + 1, srcPos + k)
              extended == results \o batch
          IN  /\ srcPos' = srcPos + k
              /\ IF batch = <<>>
                 THEN /\ pc' = "fetched"
                      /\ UNCHANGED results
                 ELSE IF Len(extended) >= max_rows
                      THEN /\ results' = TruncatePage(extended, max_rows)
                           /\ pc' = "probe"
                      ELSE /\ results' = extended
                           /\ pc' = "loop"
    /\ nFetchmany' = nFetchmany + 1
    /\ UNCHANGED <<callInputs, world, resources, validated, dispatched, arraysize,
                   more_rows_exist, nFetchone, processed_results, exc, ret, raisedAt,
                   outcome>>

\* line 186 raises
FetchManyFails ==
    /\ pc = "loop"
    /\ Len(results) < max_rows
    /\ nFetchmany' = nFetchmany + 1
    /\ exc' = Exc("ValueError", "fetch")
    /\ raisedAt' = FirstRaise("fetch")
    /\ pc' = "finally"
    /\ UNCHANGED <<callInputs, world, resources, validated, dispatched, srcPos,
                   arraysize, results, more_rows_exist, nFetchone, processed_results,
                   ret, outcome>>

\* line 185: the loop is not entered
LoopExit ==
    /\ pc = "loop"
    /\ ~(Len(results) < max_rows)
    /\ pc' = "fetched"
    /\ UNCHANGED <<callInputs, world, resources, validated, dispatched, fetchState,
                   processed_results, exc, ret, raisedAt, outcome>>

\* lines 194-196
Probe ==
    /\ pc = "probe"
    /\ nFetchone' = nFetchone + 1
    /\ IF srcPos < Len(source)
       THEN /\ more_rows_exist' = TRUE
            /\ srcPos' = srcPos + 1
       ELSE /\ more_rows_exist' = FALSE
            /\ UNCHANGED srcPos
    /\ pc' = "fetched"
    /\ UNCHANGED <<callInputs, world, resources, validated, dispatched, arraysize,
                   results, nFetchmany, processed_results, exc, ret, raisedAt, outcome>>

\* line 194 raises
ProbeFails ==
    /\ pc = "probe"
    /\ nFetchone' = nFetchone + 1
    /\ exc' = Exc("ValueError", "fetch")
    /\ raisedAt' = FirstRaise("fetch")
    /\ pc' = "finally"
    /\ UNCHANGED <<callInputs, world, resources, validated, dispatched, srcPos,
                   arraysize, results, more_rows_exist, nFetchmany, processed_results,
                   ret, outcome>>


(***************************************************************************)
(* The bodies of the three tools after execute_query has returned.         *)
(***************************************************************************)
\* execute, lines 258-279: a conversion that raises becomes a marker in the row
Normalize ==
    /\ pc = "fetched"
    /\ op = "execute_oracle"
    /\ processed_results' = NormalizeRows(results)
    /\ pc' = "format"
    /\ UNCHANGED <<callInputs, world, resources, validated, dispatched, fetchState,
                   exc, ret, raisedAt, outcome>>

\* execute, lines 282-283
FormatResults ==
    /\ pc = "format"
    /\ ret' = format_results(Description(NCols), processed_results, max_length,
                             more_rows_exist)
    /\ pc' = "finally"
    /\ UNCHANGED <<callInputs, world, resources, validated, dispatched, fetchState,
                   processed_results, exc, raisedAt, outcome>>

\* line 282 raises
FormatResultsFails ==
    /\ pc = "format"
    /\ exc' = Exc("Exception", "serialize")
    /\ raisedAt' = FirstRaise("serialize")
    /\ pc' = "finally"
    /\ UNCHANGED <<callInputs, world, resources, validated, dispatched, fetchState,
                   processed_results, ret, outcome>>

\* describe_table, lines 550-584: no column, or the comment query and the listing
DescribeRest ==
    /\ pc = "fetched"
    /\ op = "describe_table"
    /\ \/ /\ results = <<>>                       \* line 551
          /\ exc' = Exc("ValueError", "not_found")
          /\ raisedAt' = FirstRaise("not_found")
          /\ UNCHANGED ret
       \/ /\ results # <<>>                       \* lines 554-580 raise
          /\ exc' = Exc("Exception", "describe")
          /\ raisedAt' = FirstRaise("describe")
          /\ UNCHANGED ret
       \/ /\ results # <<>>
          /\ ret' = <<"columns", results>>
          /\ UNCHANGED <<exc, raisedAt>>
    /\ pc' = "finally"
    /\ UNCHANGED <<callInputs, world, resources, validated, dispatched, fetchState,
                   processed_results, outcome>>

\* list_tables, lines 653-672
ListFormat ==
    /\ pc = "fetched"
    /\ op = "list_tables"
    /\ \/ /\ results = <<>>                       \* line 654
          /\ ret' = <<"no_tables">>
          /\ UNCHANGED <<exc, raisedAt>>
       \/ /\ results # <<>>                       \* lines 663-665 raise
          /\ exc' = Exc("Exception", "listing")
          /\ raisedAt' = FirstRaise("listing")
          /\ UNCHANGED ret
       \/ /\ results # <<>>
          /\ ret' = <<"tables", results, more_rows_exist>>
          /\ UNCHANGED <<exc, raisedAt>>
    /\ pc' = "finally"
    /\ UNCHANGED <<callInputs, world, resources, validated, dispatched, fetchState,
                   processed_results, outcome>>

(***************************************************************************)
(* The finally clause and the handlers.                                    *)
(***************************************************************************)
\* lines 285-288, 586-589, 674-677: cursor.close(), then db_connection.close();
\* an exception raised here replaces the value or exception in flight
Finally ==
    /\ pc = "finally"
    /\ \/ /\ cursor' = "closed"
          /\ conn' = "closed"
          /\ pc' = IF exc # NoExc THEN OuterHandler ELSE "return"
          /\ UNCHANGED <<exc, ret, raisedAt>>
       \/ /\ exc' = Exc("DatabaseError", "cursor.close")
          /\ raisedAt' = FirstRaise("cursor.close")
          /\ ret' = None
          /\ pc' = OuterHandler
          /\ UNCHANGED resources
    /\ UNCHANGED <<callInputs, world, validated, dispatched, fetchState,
                   processed_results, outcome>>

\* execute, lines 290-292: every exception is raised again as a ValueError
ExecuteExcept ==
    /\ pc = "execute_except"
    /\ exc' = Exc("ValueError", exc.at)
    /\ pc' = "boundary_except"
    /\ UNCHANGED <<callInputs, world, resources, validated, dispatched, fetchState,
                   processed_results, ret, raisedAt, outcome>>

\* lines 314-315, 591-592, 679-680: the text of the exception is the payload
BoundaryExcept ==
    /\ pc = "boundary_except"
    /\ IF BoundaryCatches(exc.cls)
       THEN /\ response' = [kind |-> "error", text |-> <<"error", exc.at>>, rows |-> <<>>]
            /\ UNCHANGED escaped
       ELSE /\ escaped' = TRUE
            /\ UNCHANGED response
    /\ exc' = NoExc
    /\ pc' = "done"
    /\ UNCHANGED <<callInputs, world, resources, validated, dispatched, fetchState,
                   processed_results, ret, raisedAt>>

\* lines 313, 584, 654, 672: the value is the payload
Return ==
    /\ pc = "return"
    /\ response' = [kind |-> "result", text |-> ret,
                    rows |-> IF op = "execute_oracle" THEN processed_results ELSE results]
    /\ pc' = "done"
    /\ UNCHANGED <<callInputs, world, resources, validated, dispatched, fetchState,
                   processed_results, exc, ret, raisedAt, escaped>>


(***************************************************************************)
(* Bounds and inputs.                                                      *)
(***************************************************************************)
MaxRows == 2            \* max_rows below the batch cap; sources hold up to MaxRows + 1 rows
MaxTokens == 3          \* tokens of a statement given to the validator
MaxLengthSteps == 20    \* max_length ranges over 0, 7, ..., 7 * MaxLengthSteps

\* n rows of one integer column, all different
IntRows(n) == [i \in 1..n |-> <<Cell("int", i)>>]

RECURSIVE SeqsUpTo(_, _)
SeqsUpTo(S, n) ==
    IF n = 0 THEN {<<>>}
    ELSE LET shorter == SeqsUpTo(S, n - 1)
         IN  shorter \cup {Append(q, x) : q \in {r \in shorter : Len(r) = n - 1}, x \in S}

SelectT == [toks |-> <<T_SELECT, T_t>>, pad |-> 0]

CallQueries ==
    { SelectT,
      [toks |-> <<T_DROP, T_TABLE, T_t>>, pad |-> 0],
      [toks |-> <<T_SELECT, T_t>>, pad |-> MAX_QUERY_LENGTH] }

CallParams ==
    { None,
      <<Param(<<"p","1">>, "int", 0)>>,
      <<Param(<<"1","p">>, "int", 0)>>,
      <<Param(<<"p","1">>, "list", 0)>>,
      <<Param(<<"p","1">>, "str", MaxParamStrLen + 1)>> }

CallLengths == {30, 1000}

TableNames == { <<"t">>, <<"t",";">> }

Vocabulary ==
    { T_SELECT, T_t, T_Update, T_updated, T_UNION, T_ALL, T_INTO, T_semi, T_comment,
      T_string }

ValidatorQueries == SeqsUpTo(Vocabulary, MaxTokens) \ {<<>>}

FetchMaxRows == (0..MaxRows) \cup {BatchCap, BatchCap + 1, BatchCap + (BatchCap \div 2)}

\* the last lengths are of sources that still hold rows whenever the loop asks
FetchSourceLens ==
    (0..(MaxRows + 1))
    \cup {BatchCap + d : d \in 0..2}
    \cup {BatchCap + (BatchCap \div 2) + d : d \in 0..1}
    \cup {2 * BatchCap + d : d \in 0..2}

FormatRows1 == { <<Cell("clob", <<"a","}">>)>>, <<Cell("nclob", 0)>> }

FormatRows2 ==
    { <<Cell("str", <<"x">>), Cell("bfile", 0)>>,
      <<Cell("blob", 5), Cell("nclob", 0)>>,
      <<Cell("bad", <<"E">>), Cell("null", 0)>> }

FormatSources == SeqsUpTo(FormatRows1, MaxRows + 1) \cup SeqsUpTo(FormatRows2, MaxRows + 1)

FormatLengths == {7 * k : k \in 0..MaxLengthSteps}

(***************************************************************************)
(* Initial states and specifications.                                      *)
(***************************************************************************)
NothingYet ==
    /\ validated = "none"
    /\ dispatched = <<>>
    /\ srcPos = 0
    /\ arraysize = 100
    /\ results = <<>>
    /\ more_rows_exist = FALSE
    /\ nFetchmany = 0
    /\ nFetchone = 0
    /\ processed_results = <<>>
    /\ exc = NoExc
    /\ ret = None
    /\ raisedAt = "none"
    /\ response = NoResponse
    /\ escaped = FALSE

\* the server before a call
Init ==
    /\ pc = "idle"
    /\ op = "none"
    /\ query = [toks |-> <<>>, pad |-> 0]
    /\ params = None
    /\ max_rows = NoLimit
    /\ max_length = 0
    /\ table_name = None
    /\ env_ok \in BOOLEAN
    /\ source \in {IntRows(n) : n \in 0..(MaxRows + 1)}
    /\ driver = "exact"
    /\ conn = "none"
    /\ cursor = "none"
    /\ NothingYet

Next ==
    \/ \E q \in CallQueries, p \in CallParams, ml \in CallLengths, mr \in 0..MaxRows :
          CallExecuteOracle(q, p, ml, mr)
    \/ \E tn \in TableNames : CallDescribeTable(tn)
    \/ \E mr \in 0..MaxRows, pattern \in BOOLEAN : CallListTables(mr, pattern)
    \/ GetDbConnection
    \/ ExecuteQueryValidate
    \/ CursorExecute
    \/ FetchAll
    \/ FetchInit
    \/ FetchMany
    \/ FetchManyFails
    \/ LoopExit
    \/ Probe
    \/ ProbeFails
    \/ Normalize
    \/ FormatResults
    \/ FormatResultsFails
    \/ DescribeRest
    \/ ListFormat
    \/ Finally
    \/ ExecuteExcept
    \/ BoundaryExcept
    \/ Return

Spec == Init /\ [][Next]_vars

\* a call of execute_oracle that holds its connection and cursor
InExecute ==
    /\ op = "execute_oracle"
    /\ params = None
    /\ table_name = None
    /\ env_ok = TRUE
    /\ conn = "open"
    /\ cursor = "open"

\* execute_query at line 171, for every statement of ValidatorQueries
InitValidate ==
    /\ pc = "execute_query"
    /\ InExecute
    /\ query \in {[toks |-> t, pad |-> 0] : t \in ValidatorQueries}
    /\ max_rows = 1
    /\ max_length = 1000
    /\ source = IntRows(1)
    /\ driver = "exact"
    /\ NothingYet

NextValidate == ExecuteQueryValidate

SpecValidate == InitValidate /\ [][NextValidate]_vars

\* execute_query at line 179, after cursor.execute
InitFetchWith(drivers) ==
    /\ pc = "fetch_init"
    /\ InExecute
    /\ query = SelectT
    /\ max_rows \in FetchMaxRows
    /\ max_length = 1000
    /\ source \in {IntRows(n) : n \in FetchSourceLens}
    /\ driver \in drivers
    /\ validated = "ok"
    /\ dispatched = <<[query |-> SelectT, params |-> None]>>
    /\ srcPos = 0
    /\ arraysize = 100
    /\ results = <<>>
    /\ more_rows_exist = FALSE
    /\ nFetchmany = 0
    /\ nFetchone = 0
    /\ processed_results = <<>>
    /\ exc = NoExc
    /\ ret = None
    /\ raisedAt = "none"
    /\ response = NoResponse
    /\ escaped = FALSE

NextFetch ==
    \/ FetchInit
    \/ FetchMany
    \/ FetchManyFails
    \/ LoopExit
    \/ Probe
    \/ ProbeFails

\* the driver as documented: a batch is short only when the source is exhausted
InitFetch == InitFetchWith({"exact"})

SpecFetch == InitFetch /\ [][NextFetch]_vars

\* any driver: a batch may be short before the source is exhausted
InitFetchAny == InitFetchWith({"exact", "short"})

SpecFetchAny == InitFetchAny /\ [][NextFetch]_vars

\* execute at line 258: execute_query has returned the page of a source
InitFormat ==
    /\ pc = "fetched"
    /\ InExecute
    /\ query = SelectT
    /\ max_rows \in 1..MaxRows
    /\ max_length \in FormatLengths
    /\ source \in FormatSources
    /\ driver = "exact"
    /\ validated = "ok"
    /\ dispatched = <<[query |-> SelectT, params |-> None]>>
    /\ results = Take(source, max_rows)
    /\ more_rows_exist = (Len(source) > max_rows)
    /\ srcPos = Min(Len(source), max_rows + 1)
    /\ arraysize = max_rows
    /\ nFetchmany = (IF Len(source) < max_rows /\ source # <<>> THEN 2 ELSE 1)
    /\ nFetchone = (IF Len(source) >= max_rows THEN 1 ELSE 0)
    /\ processed_results = <<>>
    /\ exc = NoExc
    /\ ret = None
    /\ raisedAt = "none"
    /\ response = NoResponse
    /\ escaped = FALSE

NextFormat ==
    \/ Normalize
    \/ FormatResults

SpecFormat == InitFormat /\ [][NextFormat]_vars


(***************************************************************************)
(* The bounded fetch: C1 and C10.                                          *)
(***************************************************************************)
\* C1: a page of exactly max_rows rows (max_rows >= 1) taken from a source that
\* holds a row beyond the first max_rows comes with more_rows_exist true, and is
\* exactly the first max_rows rows of the source.
C1_FullPageSignalsMore ==
    (pc = "fetched" /\ max_rows >= 1 /\ Len(results) = max_rows /\ Len(source) > max_rows)
        => (more_rows_exist /\ results = SubSeq(source, 1, max_rows))

\* C10: the loop makes at most max_rows fetchmany calls, then at most one probe
\* fetchone, after which it fetches no more; inside the loop a step is always
\* possible and it is never about to iterate with its budget of calls spent,
\* so the loop ends; and the page holds at most max_rows rows.
C10_FetchLoopBounded ==
    /\ nFetchmany <= max_rows
    /\ (pc \in {"fetch_init", "loop", "probe"} => ENABLED NextFetch)
    /\ nFetchone <= 1
    /\ (nFetchone = 1 => pc \in {"fetched", "finally"})
    /\ (pc = "loop" /\ Len(results) < max_rows => nFetchmany < max_rows)
    /\ (pc \in {"probe", "fetched"} => Len(results) <= max_rows)

\* a short-batch driver has made max_rows single-row calls above the batch cap,
\* and the probe has been made
C10_Witness ==
    /\ pc = "fetched"
    /\ driver = "short"
    /\ max_rows > BatchCap
    /\ nFetchmany = max_rows
    /\ nFetchone = 1
    /\ Len(results) = max_rows


(***************************************************************************)
(* The call: C2, C3, C8 and C9.                                            *)
(***************************************************************************)
\* C2: in a call of execute_oracle whose SQL fails validate_query, no database
\* connection is ever opened.
C2_RejectedBeforeConnect ==
    (op = "execute_oracle" /\ validate_query(query.toks) # "ok") => conn = "none"

\* C3: when a call of execute_oracle, describe_table or list_tables has returned,
\* whichever step failed, no connection and no cursor it acquired is still open.
C3_ReleasedOnEveryExit ==
    pc = "done" => (conn # "open" /\ cursor # "open")

\* C8: in a call of execute_oracle, cursor.execute only ever receives bind
\* parameters that sanitize_input accepts and a query that validate_query_length
\* accepts; a request that fails either check ends in an error response.
C8_ValidatedBeforeDispatch ==
    op = "execute_oracle" =>
        /\ \A i \in DOMAIN dispatched :
              /\ sanitize_input(dispatched[i].params) = "ok"
              /\ validate_query_length(dispatched[i].query) = "ok"
        /\ (pc = "done" /\ (sanitize_input(params) # "ok"
                            \/ validate_query_length(query) # "ok"))
               => response.kind = "error"

\* C9: no exception leaves a tool function; a call that has returned has handed
\* a payload to its caller, and when a step of the call failed that payload is
\* the error text and carries no result rows.
C9_NoFailureEscapes ==
    /\ ~escaped
    /\ pc = "done" =>
          /\ response.kind \in {"error", "result"}
          /\ raisedAt # "none" => (response.kind = "error" /\ response.rows = <<>>)
          /\ raisedAt = "none" => response.kind = "result"

\* execute_oracle had fetched and normalised rows when closing the cursor failed:
\* the caller got the error text
C9_Witness ==
    /\ pc = "done"
    /\ op = "execute_oracle"
    /\ raisedAt = "cursor.close"
    /\ processed_results # <<>>
    /\ response.kind = "error"

(***************************************************************************)
(* The validator: C4 and C5.                                               *)
(***************************************************************************)
IsWord(token, w) == token.type = "word" /\ Lower(token.value) = w

\* a reserved keyword stands as a token of its own, outside comments and strings
HasReservedKeyword(toks) ==
    \E i \in DOMAIN toks : \E k \in DANGEROUS_KEYWORDS : IsWord(toks[i], k)

\* the statement with the text of its comments replaced by a text without keyword
NeutralComments(toks) ==
    [i \in DOMAIN toks |->
        IF toks[i].type = "comment" THEN Tok("comment", <<"/","*","x","*","/">>)
        ELSE toks[i]]

\* C4: validate_query rejects every statement in which a reserved keyword stands
\* as a token of its own outside comments and string literals, in any letter
\* case and at any position; a keyword inside a comment does not change the
\* verdict.
C4_ReservedKeywordRejected ==
    validated # "none" =>
        /\ HasReservedKeyword(query.toks) => validated # "ok"
        /\ validated = validate_query(NeutralComments(query.toks))

UnionAt(toks, i) == IsWord(toks[i], <<"u","n","i","o","n">>)

UnionAllAt(toks, i) ==
    UnionAt(toks, i) /\ i < Len(toks) /\ IsWord(toks[i + 1], <<"a","l","l">>)

BareUnionAt(toks, i) == UnionAt(toks, i) /\ ~UnionAllAt(toks, i)

FollowedBySelect(toks, i) ==
    i < Len(toks) /\ IsWord(toks[i + 1], <<"s","e","l","e","c","t">>)

\* one SELECT statement without INTO and without reserved keyword
NothingElseForbidden(toks) ==
    /\ Len(sqlparse_parse(toks)) = 1
    /\ get_type(sqlparse_parse(toks)[1]) = <<"S","E","L","E","C","T">>
    /\ ~\E i \in DOMAIN toks : Contains(Lower(toks[i].value), <<"i","n","t","o">>)
    /\ ~HasReservedKeyword(toks)

\* every UNION of the statement is bare and immediately followed by SELECT
PlainUnionOfSelects(toks) ==
    /\ \E i \in DOMAIN toks : UnionAt(toks, i)
    /\ \A i \in DOMAIN toks : UnionAt(toks, i) =>
          (BareUnionAt(toks, i) /\ FollowedBySelect(toks, i))
    /\ NothingElseForbidden(toks)

FullSerialization ==
    Dumps(JsonResults(Description(NCols), processed_results, more_rows_exist))

\* format_results has cut the text of a non-empty page
ByteTruncated ==
    /\ pc = "finally"
    /\ raisedAt = "none"
    /\ processed_results # <<>>
    /\ max_length < Len(FullSerialization)

\* C6: for a non-empty page and max_length smaller than the full serialization,
\* the text format_results returns, notice included, is at most max_length long.
C6_WithinMaxLength == ByteTruncated => Len(ret) <= max_length

JsonBlank(c) == c \in {" ", "\n"}

\* one step of a recogniser of JSON arrays of objects whose members are strings
JsonStep(st, c) ==
    CASE st = "start" -> IF c = "[" THEN "arr0" ELSE IF JsonBlank(c) THEN st ELSE "bad"
      [] st = "arr0" -> IF c = "{" THEN "obj0" ELSE IF c = "]" THEN "end"
                        ELSE IF JsonBlank(c) THEN st ELSE "bad"
      [] st = "obj0" -> IF c = "\"" THEN "key" ELSE IF c = "}" THEN "arr1"
                        ELSE IF JsonBlank(c) THEN st ELSE "bad"
      [] st = "key" -> IF c = "\"" THEN "colon" ELSE IF c = "\\" THEN "key_esc"
                       ELSE IF c = "\n" THEN "bad" ELSE st
      [] st = "key_esc" -> IF c \in {"\"", "\\", "/", "b", "f", "n", "r", "t"}
                           THEN "key" ELSE "bad"
      [] st = "colon" -> IF c = ":" THEN "val0" ELSE IF JsonBlank(c) THEN st ELSE "bad"
      [] st = "val0" -> IF c = "\"" THEN "val" ELSE IF JsonBlank(c) THEN st ELSE "bad"
      [] st = "val" -> IF c = "\"" THEN "obj1" ELSE IF c = "\\" THEN "val_esc"
                       ELSE IF c = "\n" THEN "bad" ELSE st
      [] st = "val_esc" -> IF c \in {"\"", "\\", "/", "b", "f", "n", "r", "t"}
                           THEN "val" ELSE "bad"
      [] st = "obj1" -> IF c = "," THEN "obj2" ELSE IF c = "}" THEN "arr1"
                        ELSE IF JsonBlank(c) THEN st ELSE "bad"
      [] st = "obj2" -> IF c = "\"" THEN "key" ELSE IF JsonBlank(c) THEN st ELSE "bad"
      [] st = "arr1" -> IF c = "," THEN "arr2" ELSE IF c = "]" THEN "end"
                        ELSE IF JsonBlank(c) THEN st ELSE "bad"
      [] st = "arr2" -> IF c = "{" THEN "obj0" ELSE IF JsonBlank(c) THEN st ELSE "bad"
      [] st = "end" -> IF JsonBlank(c) THEN st ELSE "bad"
      [] OTHER -> "bad"

\* the state the recogniser reaches from st over text[lo..hi]
RECURSIVE JsonRun(_, _, _, _)
JsonRun(text, lo, hi, st) ==
    IF lo > hi \/ st = "bad" THEN st
    ELSE IF lo = hi THEN JsonStep(st, text[lo])
    ELSE LET mid == (lo + hi) \div 2
         IN  JsonRun(text, mid + 1, hi, JsonRun(text, lo, mid, st))

IsJsonArrayOfObjects(text) == JsonRun(text, 1, Len(text), "start") = "end"

\* the text up to the close of the k-th record of the full serialization
ThroughRecord(k) ==
    LET recs == JsonResults(Description(NCols), processed_results, more_rows_exist)
    IN  <<"[","\n">>
        \o Join(<<",","\n">>, [i \in 1..k |-> <<" "," ">> \o DumpRecord(recs[i])])

\* C7: for a non-empty page and max_length smaller than the full serialization,
\* the text format_results returns is a well-formed JSON array of objects: the
\* kept prefix ends at the close of a complete record, and the byte-limit notice
\* is the last element.
C7_TruncatedIsJson ==
    ByteTruncated =>
        /\ IsJsonArrayOfObjects(ret)
        /\ \E k \in 1..(Len(processed_results) + (IF more_rows_exist THEN 1 ELSE 0)) :
              ret = ThroughRecord(k) \o ByteLimitNotice

(***************************************************************************)
(* Normalisation and the two notices: C11 and C12.                         *)
(***************************************************************************)
\* execute has built processed_results from the page (line 279 done)
Normalized ==
    /\ op = "execute_oracle"
    /\ pc \in {"format", "finally"}
    /\ raisedAt = "none"

\* C11: every normalized row handed to format_results has exactly one cell per
\* column, whatever the kinds of its raw cells, and the cell at column j is the
\* normalization of the raw cell of column j, so that the record format_results
\* builds pairs each column name with the cell of its own column.
C11_ArityPreserved ==
    Normalized =>
        /\ Len(processed_results) = Len(results)
        /\ \A i \in DOMAIN processed_results :
              /\ Len(processed_results[i]) = NCols
              /\ Len(ZipRecord(Description(NCols), processed_results[i])) = NCols
              /\ \A j \in DOMAIN processed_results[i] :
                    <<processed_results[i][j]>> = NormalizeCell(results[i][j])

\* C12: whenever execute_query signalled more_rows_exist, the text returned by
\* format_results contains the row-limit notice; when the serialization is
\* longer than max_length it contains the byte-limit notice as well.
C12_NoticesCompose ==
    (pc = "finally" /\ raisedAt = "none" /\ more_rows_exist) =>
        /\ Contains(ret, RowLimitMessage)
        /\ (ByteTruncated => Contains(ret, ByteLimitMessage))

=============================================================================
